---- MODULE Spec2Model ----
(***************************************************************************)
(* Model of src/ml_pipeline/alt_data_processor.py: the in-memory           *)
(* FEATURE_STORE and update_features_from_event, which folds one           *)
(* normalized event into the store.                                        *)
(*                                                                         *)
(* Strings whose characters the code inspects (related_symbols, which is   *)
(* split on ',', and sentiment_score, which float() parses) are sequences  *)
(* of one-character strings.  A Python float is the pair                   *)
(* <<mantissa, digits>> standing for mantissa / 10^digits, normalised so   *)
(* that two texts denoting the same number give the same pair.             *)
(***************************************************************************)
EXTENDS Integers, Sequences, FiniteSets, TLC

VARIABLES FEATURE_STORE, event, result, before, log,
          pc, event_json, uncaught, pulled, shown

vars == <<FEATURE_STORE, event, result, before, log,
          pc, event_json, uncaught, pulled, shown>>

\* Largest number of events folded into the store in one behaviour.
MaxEvents == 3

\* Largest number of messages the loop of process_event_stream receives in
\* one behaviour.
MaxTurns == 3

----------------------------------------------------------------------------
(* Python helpers                                                          *)

\* F(v), with v evaluated once however often F uses it.
Once(v, F(_)) == CHOOSE y \in {F(x) : x \in {v}} : TRUE

\* {} : the dict without keys.
EmptyDict == [k \in {} |-> k]

\* 0.0
ZeroFloat == <<0, 0>>

Digits == {"0", "1", "2", "3", "4", "5", "6", "7", "8", "9"}

DigitValue(c) ==
    CASE c = "0" -> 0 [] c = "1" -> 1 [] c = "2" -> 2 [] c = "3" -> 3
      [] c = "4" -> 4 [] c = "5" -> 5 [] c = "6" -> 6 [] c = "7" -> 7
      [] c = "8" -> 8 [] c = "9" -> 9

\* str.split() in place of str.split(','): the text is cut at whitespace,
\* never at the separator.
split_AtWhitespace(s, sep) ==
    IF \E i \in DOMAIN s : s[i] # " "
    THEN <<SelectSeq(s, LAMBDA c : c # " ")>>
    ELSE <<>>

\* Empty pieces dropped, as str.split() without separator drops them.
RECURSIVE split_NoEmptyPieces(_, _)
split_NoEmptyPieces(s, sep) ==
    IF s = <<>> THEN <<>>
    ELSE IF \A i \in DOMAIN s : s[i] # sep THEN <<s>>
    ELSE LET i == CHOOSE j \in DOMAIN s :
                      s[j] = sep /\ \A m \in 1..(j - 1) : s[m] # sep
         IN (IF i = 1 THEN <<>> ELSE <<SubSeq(s, 1, i - 1)>>)
            \o split_NoEmptyPieces(SubSeq(s, i + 1, Len(s)), sep)

\* str.split(sep) with a one-character separator: the pieces between the
\* separators, empty pieces kept; "".split(',') is [""].
RECURSIVE split(_, _)
split(s, sep) ==
    IF \A i \in DOMAIN s : s[i] # sep
    THEN <<s>>
    ELSE LET i == CHOOSE j \in DOMAIN s :
                      s[j] = sep /\ \A m \in 1..(j - 1) : s[m] # sep
         IN <<SubSeq(s, 1, i - 1)>> \o split(SubSeq(s, i + 1, Len(s)), sep)

\* float() skips leading and trailing whitespace.
RECURSIVE strip(_)
strip(s) ==
    IF s = <<>> THEN s
    ELSE IF s[1] = " " THEN strip(Tail(s))
    ELSE IF s[Len(s)] = " " THEN strip(SubSeq(s, 1, Len(s) - 1))
    ELSE s

\* The number written by a sequence of decimal digits (0 for none).
RECURSIVE ToNat(_)
ToNat(ds) ==
    IF ds = <<>> THEN 0
    ELSE 10 * ToNat(SubSeq(ds, 1, Len(ds) - 1)) + DigitValue(ds[Len(ds)])

\* The float m / 10^d in its unique representation.
RECURSIVE Normalize(_, _)
Normalize(m, d) ==
    IF m = 0 THEN ZeroFloat
    ELSE IF d > 0 /\ m % 10 = 0 THEN Normalize(m \div 10, d - 1)
    ELSE <<m, d>>

\* float(text) for texts over digits, '.', '+', '-', ' ' and letters that
\* spell no float keyword: [ws] [sign] (digits [. [digits]] | . digits) [ws],
\* anything else raises ValueError.
float(text) ==
    Once(strip(text), LAMBDA t :
      Once(IF t # <<>> /\ t[1] \in {"+", "-"} THEN Tail(t) ELSE t, LAMBDA body :
        LET neg  == t # <<>> /\ t[1] = "-"
            dots == {i \in DOMAIN body : body[i] = "."}
        IN  Once(IF dots = {} THEN 0 ELSE CHOOSE i \in dots : \A j \in dots : i <= j,
                 LAMBDA dot :
          LET ip == IF dot = 0 THEN body ELSE SubSeq(body, 1, dot - 1)
              fp == IF dot = 0 THEN <<>> ELSE SubSeq(body, dot + 1, Len(body))
              wellformed == /\ \A i \in DOMAIN ip : ip[i] \in Digits
                            /\ \A i \in DOMAIN fp : fp[i] \in Digits
                            /\ Len(ip) + Len(fp) > 0
          IN  IF wellformed
              THEN Once(ToNat(ip \o fp), LAMBDA n :
                     Once(Normalize(n, Len(fp)), LAMBDA mag :
                       [exc |-> "none",
                        value |-> IF neg THEN <<0 - mag[1], mag[2]>> ELSE mag]))
              ELSE [exc |-> "ValueError", value |-> ZeroFloat])))

----------------------------------------------------------------------------
(* update_features_from_event                                              *)

\* The record of a new symbol starting at news_event_count 1.
UpdateSymbol_CreatedCountsOne(store, symbol, sentiment_score) ==
    IF symbol \in DOMAIN store
    THEN [store EXCEPT
            ![symbol] = [latest_news_sentiment |-> sentiment_score,
                         news_event_count |-> store[symbol].news_event_count + 1]]
    ELSE [k \in DOMAIN store \cup {symbol} |->
            IF k = symbol
            THEN [latest_news_sentiment |-> sentiment_score, news_event_count |-> 2]
            ELSE store[k]]

\* The sentiment assigned only where the record is created.
UpdateSymbol_FirstWriteWins(store, symbol, sentiment_score) ==
    IF symbol \in DOMAIN store
    THEN [store EXCEPT ![symbol].news_event_count = @ + 1]
    ELSE [k \in DOMAIN store \cup {symbol} |->
            IF k = symbol
            THEN [latest_news_sentiment |-> sentiment_score, news_event_count |-> 1]
            ELSE store[k]]

\* No record created for a symbol the store does not have.
UpdateSymbol_KnownOnly(store, symbol, sentiment_score) ==
    IF symbol \in DOMAIN store
    THEN [store EXCEPT
            ![symbol] = [latest_news_sentiment |-> sentiment_score,
                         news_event_count |-> store[symbol].news_event_count + 1]]
    ELSE store

\* news_event_count = 1 in place of += 1.
UpdateSymbol_CountSetToOne(store, symbol, sentiment_score) ==
    [k \in DOMAIN store \cup {symbol} |->
        IF k = symbol
        THEN [latest_news_sentiment |-> sentiment_score, news_event_count |-> 1]
        ELSE store[k]]

\* The event counted only when it changes the sentiment of a known symbol.
UpdateSymbol_CountOnChange(store, symbol, sentiment_score) ==
    IF symbol \in DOMAIN store
    THEN IF store[symbol].latest_news_sentiment = sentiment_score
         THEN store
         ELSE [store EXCEPT
                 ![symbol] = [latest_news_sentiment |-> sentiment_score,
                              news_event_count |-> store[symbol].news_event_count + 1]]
    ELSE [k \in DOMAIN store \cup {symbol} |->
            IF k = symbol
            THEN [latest_news_sentiment |-> sentiment_score, news_event_count |-> 1]
            ELSE store[k]]

\* FEATURE_STORE rebound to a dict holding the symbol's record alone.
UpdateSymbol_OthersDropped(store, symbol, sentiment_score) ==
    [k \in {symbol} |->
        [latest_news_sentiment |-> sentiment_score,
         news_event_count |->
            (IF symbol \in DOMAIN store
             THEN store[symbol].news_event_count ELSE 0) + 1]]

\* One pass of the body of `for symbol in symbols`.
UpdateSymbol(store, symbol, sentiment_score) ==
    LET created == IF symbol \in DOMAIN store
                   THEN store
                   ELSE [k \in DOMAIN store \cup {symbol} |->
                           IF k = symbol
                           THEN [latest_news_sentiment |-> ZeroFloat,
                                 news_event_count |-> 0]
                           ELSE store[k]]
    IN  [created EXCEPT
           ![symbol] = [latest_news_sentiment |-> sentiment_score,
                        news_event_count |-> created[symbol].news_event_count + 1]]

\* for symbol in set(symbols): a repeated symbol is visited once.
RECURSIVE UpdateSymbols_EachOnce(_, _, _)
UpdateSymbols_EachOnce(store, symbols, sentiment_score) ==
    IF symbols = <<>> THEN store
    ELSE LET rest == SelectSeq(Tail(symbols), LAMBDA x : x # Head(symbols))
         IN  UpdateSymbols_EachOnce(
                 [k \in DOMAIN store \cup {Head(symbols)} |->
                     IF k = Head(symbols)
                     THEN [latest_news_sentiment |-> sentiment_score,
                           news_event_count |->
                              (IF k \in DOMAIN store
                               THEN store[k].news_event_count ELSE 0) + 1]
                     ELSE store[k]],
                 rest, sentiment_score)

\* for symbol in symbols: ...
RECURSIVE UpdateSymbols(_, _, _)
UpdateSymbols(store, symbols, sentiment_score) ==
    IF symbols = <<>> THEN store
    ELSE Once(UpdateSymbol(store, Head(symbols), sentiment_score),
              LAMBDA updated :
                UpdateSymbols(updated, Tail(symbols), sentiment_score))

\* metadata.get("related_symbols", "") in place of the early return.
update_features_SymbolsDefaultEmpty(store, ev) ==
    LET metadata == IF "metadata" \in DOMAIN ev THEN ev["metadata"] ELSE EmptyDict
        symbols  == IF "related_symbols" \in DOMAIN metadata
                    THEN split(metadata["related_symbols"], ",")
                    ELSE <<<<>>>>
        parsed   == IF "sentiment_score" \in DOMAIN metadata
                    THEN float(metadata["sentiment_score"])
                    ELSE [exc |-> "none", value |-> ZeroFloat]
    IN  IF parsed.exc # "none"
        THEN [store |-> store, exc |-> parsed.exc]
        ELSE [store |-> UpdateSymbols(store, symbols, parsed.value), exc |-> "none"]

\* The ValueError of float() caught and 0.0 used in its place.
update_features_ParseErrorSwallowed(store, ev) ==
    LET metadata == IF "metadata" \in DOMAIN ev THEN ev["metadata"] ELSE EmptyDict
    IN  IF "related_symbols" \notin DOMAIN metadata
        THEN [store |-> store, exc |-> "none"]
        ELSE LET symbols == split(metadata["related_symbols"], ",")
                 parsed  == IF "sentiment_score" \in DOMAIN metadata
                            THEN float(metadata["sentiment_score"])
                            ELSE [exc |-> "none", value |-> ZeroFloat]
             IN  [store |-> UpdateSymbols(store, symbols, parsed.value),
                  exc |-> "none"]

\* An event without sentiment_score skipped like one without related_symbols.
update_features_ScoreRequired(store, ev) ==
    LET metadata == IF "metadata" \in DOMAIN ev THEN ev["metadata"] ELSE EmptyDict
    IN  IF "related_symbols" \notin DOMAIN metadata
           \/ "sentiment_score" \notin DOMAIN metadata
        THEN [store |-> store, exc |-> "none"]
        ELSE LET symbols == split(metadata["related_symbols"], ",")
                 parsed  == float(metadata["sentiment_score"])
             IN  IF parsed.exc # "none"
                 THEN [store |-> store, exc |-> parsed.exc]
                 ELSE [store |-> UpdateSymbols(store, symbols, parsed.value),
                       exc |-> "none"]

\* float() called inside the loop, after the record of the symbol is created.
update_features_ParsedInLoop(store, ev) ==
    LET metadata == IF "metadata" \in DOMAIN ev THEN ev["metadata"] ELSE EmptyDict
    IN  IF "related_symbols" \notin DOMAIN metadata
        THEN [store |-> store, exc |-> "none"]
        ELSE LET symbols == split(metadata["related_symbols"], ",")
                 parsed  == IF "sentiment_score" \in DOMAIN metadata
                            THEN float(metadata["sentiment_score"])
                            ELSE [exc |-> "none", value |-> ZeroFloat]
                 first   == Head(symbols)
             IN  IF parsed.exc # "none"
                 THEN [store |-> [k \in DOMAIN store \cup {first} |->
                                    IF k \in DOMAIN store
                                    THEN store[k]
                                    ELSE [latest_news_sentiment |-> ZeroFloat,
                                          news_event_count |-> 0]],
                       exc |-> parsed.exc]
                 ELSE [store |-> UpdateSymbols(store, symbols, parsed.value),
                       exc |-> "none"]

\* The store after the call and the exception it raised ("none": it returned).
update_features_from_event(store, ev) ==
    LET metadata == IF "metadata" \in DOMAIN ev THEN ev["metadata"] ELSE EmptyDict
    IN  IF "related_symbols" \notin DOMAIN metadata
        THEN [store |-> store, exc |-> "none"]
        ELSE LET symbols == split(metadata["related_symbols"], ",")
                 parsed  == IF "sentiment_score" \in DOMAIN metadata
                            THEN float(metadata["sentiment_score"])
                            ELSE [exc |-> "none", value |-> ZeroFloat]
             IN  Once(symbols, LAMBDA symbol_list :
                   Once(parsed, LAMBDA sentiment_score :
                     IF sentiment_score.exc # "none"
                     THEN [store |-> store, exc |-> sentiment_score.exc]
                     ELSE [store |-> UpdateSymbols(store, symbol_list,
                                                   sentiment_score.value),
                           exc |-> "none"]))

----------------------------------------------------------------------------
(* Events                                                                  *)

\* JSON.  A document is a sequence of tokens: braces, colon, comma and
\* string literals.  The value handed to json.dumps is a tree of JStr and
\* JObj, an object keeping its members in the order of the dict literal.
JStr(s) == [str |-> s]

JObj(members) == [obj |-> members]

LBrace == [t |-> "{"]

RBrace == [t |-> "}"]

Colon == [t |-> ":"]

Comma == [t |-> ","]

StrToken(s) == [t |-> "string", v |-> s]

\* json.dumps: '{' key ':' value (',' key ':' value)* '}' for a dict, the
\* quoted text for a str.
RECURSIVE json_dumps(_)
json_dumps(v) ==
    IF "str" \in DOMAIN v
    THEN <<StrToken(v.str)>>
    ELSE LET RECURSIVE Members(_)
             Members(i) ==
                 IF i > Len(v.obj) THEN <<>>
                 ELSE (IF i > 1 THEN <<Comma>> ELSE <<>>)
                      \o <<StrToken(v.obj[i][1]), Colon>>
                      \o json_dumps(v.obj[i][2])
                      \o Members(i + 1)
         IN  <<LBrace>> \o Members(1) \o <<RBrace>>

\* json.loads from token i on: the Python value (str, or dict of values) and
\* the position after it.  A key given twice keeps its last value.
RECURSIVE ParseValue(_, _)
RECURSIVE ParseMembers(_, _, _)
ParseValue(toks, i) ==
    IF toks[i].t = "string"
    THEN [value |-> toks[i].v, next |-> i + 1]
    ELSE ParseMembers(toks, i + 1, EmptyDict)

ParseMembers(toks, i, dict) ==
    IF toks[i] = RBrace
    THEN [value |-> dict, next |-> i + 1]
    ELSE Once(ParseValue(toks, i + 2), LAMBDA member :
           LET key   == toks[i].v
               grown == [k \in DOMAIN dict \cup {key} |->
                           IF k = key THEN member.value ELSE dict[k]]
           IN  IF toks[member.next] = Comma
               THEN ParseMembers(toks, member.next + 1, grown)
               ELSE ParseMembers(toks, member.next, grown))

json_loads(toks) == ParseValue(toks, 1).value

\* The JSON message of get_simulated_normalized_event.
get_simulated_normalized_event ==
    json_dumps(JObj(<<
        <<"event_id", JStr("a1b2c3d4-e5f6-7890-1234-567890abcdef")>>,
        <<"source_type", JStr("news")>>,
        <<"source_name", JStr("FinancialWire")>>,
        <<"content", JStr("Tech Giant 'Innovate Inc.' Announces Breakthrough in Chip Technology")>>,
        <<"metadata", JObj(<<
            <<"sentiment_score", JStr(<<"0", ".", "7", "5">>)>>,
            <<"related_symbols", JStr(<<"I", "N", "V", "T", ",",
                                        "C", "H", "I", "P", ",",
                                        "S", "E", "M", "I">>)>> >>)>>,
        <<"timestamp_utc", JStr("2025-07-31T12:00:00Z")>> >>))

\* A message of the bus: a normalized event with the given event_id and
\* metadata members.
BusMessage(id, members) ==
    json_dumps(JObj(<<
        <<"event_id", JStr(id)>>,
        <<"source_type", JStr("news")>>,
        <<"metadata", JObj(members)>> >>))

\* The messages the loop can receive from the topic alt_data.normalized: the
\* simulated one, and normalized events with
\* "0.2" / "A",  "0.9" / "A,B",  "x" / "B",  no score / "B",  "0.2" / no symbols.
BusMessages ==
    {get_simulated_normalized_event,
     BusMessage("m1", << <<"sentiment_score", JStr(<<"0", ".", "2">>)>>,
                         <<"related_symbols", JStr(<<"A">>)>> >>),
     BusMessage("m2", << <<"sentiment_score", JStr(<<"0", ".", "9">>)>>,
                         <<"related_symbols", JStr(<<"A", ",", "B">>)>> >>),
     BusMessage("m3", << <<"sentiment_score", JStr(<<"x">>)>>,
                         <<"related_symbols", JStr(<<"B">>)>> >>),
     BusMessage("m4", << <<"related_symbols", JStr(<<"B">>)>> >>),
     BusMessage("m5", << <<"sentiment_score", JStr(<<"0", ".", "2">>)>> >>)}

\* A metadata dict; rs and sc are <<>> (key absent) or <<text>>.
Metadata(rs, sc) ==
    [k \in {x \in {"related_symbols"} : rs # <<>>}
           \cup {x \in {"sentiment_score"} : sc # <<>>} |->
        IF k = "related_symbols" THEN rs[1] ELSE sc[1]]

NormalizedEvent(id, md) ==
    [event_id |-> id, source_type |-> "news", metadata |-> md]

\* related_symbols texts: "A", "B", "A,B", "A,A"
RelatedSymbolsTexts ==
    {<<"A">>, <<"B">>, <<"A", ",", "B">>, <<"A", ",", "A">>}

\* sentiment_score: absent, "0.2", "0.9", "x"
SentimentScoreOptions ==
    {<<>>, <<<<"0", ".", "2">>>>, <<<<"0", ".", "9">>>>, <<<<"x">>>>}

\* The events a caller hands to update_features_from_event.
Events ==
    {NormalizedEvent("e1", Metadata(<<r>>, sc)) :
        r \in RelatedSymbolsTexts, sc \in SentimentScoreOptions}
    \cup
    {\* "" / "0.2",  "A,,B" / "0.9",  "A" / ".9",  "B" / " 0.75 ",  "A" / "-0.2"
     NormalizedEvent("e2", Metadata(<<<<>>>>, <<<<"0", ".", "2">>>>)),
     NormalizedEvent("e2", Metadata(<<<<"A", ",", ",", "B">>>>, <<<<"0", ".", "9">>>>)),
     NormalizedEvent("e2", Metadata(<<<<"A">>>>, <<<<".", "9">>>>)),
     NormalizedEvent("e2", Metadata(<<<<"B">>>>, <<<<" ", "0", ".", "7", "5", " ">>>>)),
     NormalizedEvent("e2", Metadata(<<<<"A">>>>, <<<<"-", "0", ".", "2">>>>)),
     \* malformed scores "", "0.2.", "0 2", "-"
     NormalizedEvent("e2", Metadata(<<<<"A">>>>, <<<<>>>>)),
     NormalizedEvent("e2", Metadata(<<<<"B">>>>, <<<<"0", ".", "2", ".">>>>)),
     NormalizedEvent("e2", Metadata(<<<<"A", ",", "B">>>>, <<<<"0", " ", "2">>>>)),
     NormalizedEvent("e2", Metadata(<<<<"B">>>>, <<<<"-">>>>)),
     \* no related_symbols
     EmptyDict,
     [event_id |-> "e3", source_type |-> "news"],
     NormalizedEvent("e3", EmptyDict),
     NormalizedEvent("e3", Metadata(<<>>, <<<<"0", ".", "2">>>>)),
     NormalizedEvent("e3", Metadata(<<>>, <<<<"x">>>>))}

----------------------------------------------------------------------------
(* State machine                                                           *)

\* FEATURE_STORE : the module-level dict, symbol -> feature record.
\* event, result, before : the argument of the latest call of
\*     update_features_from_event, how the call ended, and the store it found.
\* log : the calls that reached the update loop and returned, in order, each
\*     with the store before and after it.
\* pc : where the loop of process_event_stream stands: "receive" (line 41),
\*     "consume" (lines 42-46), "display" (lines 49-51), "sleep" (line 53),
\*     or "halted" once an exception has left the loop.
\* event_json : the message the loop received last.
\* uncaught : the exception that left the loop, "none" while it runs.
\* pulled : the messages the loop received, in order.
\* shown : what the loop displayed, in order: the store printed, the number
\*     of messages received by then, and the event consumed last.
Init ==
    /\ FEATURE_STORE = EmptyDict
    /\ event = EmptyDict
    /\ result = "not_called"
    /\ before = EmptyDict
    /\ log = <<>>
    /\ pc = "receive"
    /\ event_json = <<>>
    /\ uncaught = "none"
    /\ pulled = <<>>
    /\ shown = <<>>

\* The entity identifiers an event lists, in order.
SymbolsOf(ev) ==
    IF "metadata" \in DOMAIN ev /\ "related_symbols" \in DOMAIN ev["metadata"]
    THEN split(ev["metadata"]["related_symbols"], ",")
    ELSE <<>>

\* update_features_from_event(e) against the global store.
Ingest(e) ==
    \E r \in {update_features_from_event(FEATURE_STORE, e)} :
        /\ event' = e
        /\ before' = FEATURE_STORE
        /\ FEATURE_STORE' = r.store
        /\ result' = IF r.exc = "none" THEN "returned" ELSE r.exc
        /\ log' = IF r.exc = "none" /\ SymbolsOf(e) # <<>>
                  THEN Append(log, [event |-> e,
                                    before |-> FEATURE_STORE,
                                    after |-> r.store])
                  ELSE log

\* A caller passes an event to update_features_from_event.
Call ==
    /\ Len(log) < MaxEvents
    /\ \E e \in Events : Ingest(e)
    /\ UNCHANGED <<pc, event_json, uncaught, pulled, shown>>

\* One turn of the loop of process_event_stream, taken at once: receive the
\* simulated message, decode it, update the features from it, display the
\* store and sleep.
process_event_stream ==
    /\ Len(log) < MaxEvents
    /\ pc = "receive"
    /\ LET message == get_simulated_normalized_event
           ev      == json_loads(message)
           r       == update_features_from_event(FEATURE_STORE, ev)
       IN  /\ event_json' = message
           /\ pulled' = Append(pulled, message)
           /\ Ingest(ev)
           /\ shown' = Append(shown, [store |-> r.store,
                                      turn |-> Len(pulled) + 1,
                                      event |-> ev])
    /\ UNCHANGED <<pc, uncaught>>

Next == Call \/ process_event_stream

Spec == Init /\ [][Next]_vars

\* The loop of process_event_stream step by step, on the messages of the bus.

\* Line 41: the next message arrives.
Receive ==
    /\ pc = "receive"
    /\ Len(pulled) < MaxTurns
    /\ \E m \in BusMessages :
          /\ event_json' = m
          /\ pulled' = Append(pulled, m)
    /\ pc' = "consume"
    /\ UNCHANGED <<FEATURE_STORE, event, result, before, log, uncaught, shown>>

\* The failure of update_features_from_event caught around the call: the
\* event is skipped and the loop goes on to sleep.
Consume_SkipAndContinue ==
    /\ pc = "consume"
    /\ \E ev \in {json_loads(event_json)} :
          /\ Ingest(ev)
          /\ uncaught' = "none"
          /\ pc' = IF result' = "returned" THEN "display" ELSE "sleep"
    /\ UNCHANGED <<event_json, pulled, shown>>

\* Lines 42-46: decode the message, print its event_id, update the features.
\* No exception is caught: a KeyError of event['event_id'] or the ValueError
\* of update_features_from_event leaves the loop.
Consume ==
    /\ pc = "consume"
    /\ \E ev \in {json_loads(event_json)} :
          IF "event_id" \notin DOMAIN ev
          THEN /\ uncaught' = "KeyError"
               /\ pc' = "halted"
               /\ UNCHANGED <<FEATURE_STORE, event, result, before, log>>
          ELSE /\ Ingest(ev)
               /\ uncaught' = IF result' = "returned" THEN "none" ELSE result'
               /\ pc' = IF result' = "returned" THEN "display" ELSE "halted"
    /\ UNCHANGED <<event_json, pulled, shown>>

\* The store printed as it was before the update of this turn.
Display_StoreBeforeUpdate ==
    /\ pc = "display"
    /\ shown' = Append(shown, [store |-> before,
                               turn |-> Len(pulled),
                               event |-> event])
    /\ pc' = "sleep"
    /\ UNCHANGED <<FEATURE_STORE, event, result, before, log,
                   event_json, uncaught, pulled>>

\* Lines 49-51: print the store.
Display ==
    /\ pc = "display"
    /\ shown' = Append(shown, [store |-> FEATURE_STORE,
                               turn |-> Len(pulled),
                               event |-> event])
    /\ pc' = "sleep"
    /\ UNCHANGED <<FEATURE_STORE, event, result, before, log,
                   event_json, uncaught, pulled>>

\* The loop left after its first turn (a break, or `while` run once).
Sleep_ThenLeave ==
    /\ pc = "sleep"
    /\ pc' = "halted"
    /\ UNCHANGED <<FEATURE_STORE, event, result, before, log,
                   event_json, uncaught, pulled, shown>>

\* Line 53: time.sleep(5) returns and the loop starts over.
Sleep ==
    /\ pc = "sleep"
    /\ pc' = "receive"
    /\ UNCHANGED <<FEATURE_STORE, event, result, before, log,
                   event_json, uncaught, pulled, shown>>

LoopNext == Receive \/ Consume \/ Display \/ Sleep

LoopSpec == Init /\ [][LoopNext]_vars

\* The interpreter keeps running the loop: a step that can be taken is taken.
FairLoopSpec == LoopSpec /\ WF_vars(LoopNext)

TypeOK ==
    /\ result \in {"not_called", "returned", "ValueError"}
    /\ Len(log) <= MaxEvents
    /\ \A k \in DOMAIN FEATURE_STORE :
          FEATURE_STORE[k].news_event_count \in Nat

----------------------------------------------------------------------------
(* Vocabulary of the properties                                            *)

Called == result # "not_called"

HasRelatedSymbols(ev) ==
    "metadata" \in DOMAIN ev /\ "related_symbols" \in DOMAIN ev["metadata"]

HasSentimentScore(ev) ==
    "metadata" \in DOMAIN ev /\ "sentiment_score" \in DOMAIN ev["metadata"]

Range(seq) == {seq[i] : i \in DOMAIN seq}

Distinct(seq) == \A i, j \in DOMAIN seq : i # j => seq[i] # seq[j]

\* How often k occurs in seq.
Occurrences(seq, k) == Cardinality({i \in DOMAIN seq : seq[i] = k})

\* news_event_count of k, an entity without a record counting as 0.
CountIn(store, k) ==
    IF k \in DOMAIN store THEN store[k].news_event_count ELSE 0

\* The score an event carries: its sentiment_score as a number, 0.0 if it
\* has none.
ScoreOf(ev) ==
    IF HasSentimentScore(ev)
    THEN float(ev["metadata"]["sentiment_score"]).value
    ELSE ZeroFloat

\* The event the loop of process_event_stream works on.
SimulatedEvent == json_loads(get_simulated_normalized_event)

\* Score texts that are not decimal numbers: "x", "", "0.2.", "0 2", "-".
MalformedScoreTexts ==
    {<<"x">>, <<>>, <<"0", ".", "2", ".">>, <<"0", " ", "2">>, <<"-">>}

\* The events of the log that list k.
Listing(k) == {i \in DOMAIN log : k \in Range(SymbolsOf(log[i].event))}

\* Every entity some logged event lists.
SeenEntities == UNION {Range(SymbolsOf(log[i].event)) : i \in DOMAIN log}

----------------------------------------------------------------------------
(* Properties                                                              *)

\* C1: a call with an event whose metadata has no related_symbols key (or
\* that has no metadata) returns normally and leaves FEATURE_STORE as it
\* found it: same keys, same latest_news_sentiment and news_event_count.
C1_NoRelatedSymbolsNoChange ==
    (Called /\ ~HasRelatedSymbols(event)) =>
        /\ result = "returned"
        /\ DOMAIN FEATURE_STORE = DOMAIN before
        /\ \A k \in DOMAIN before :
              /\ FEATURE_STORE[k].latest_news_sentiment = before[k].latest_news_sentiment
              /\ FEATURE_STORE[k].news_event_count = before[k].news_event_count

\* A non-empty store met an event that has a malformed score but no
\* related_symbols.
C1_Witness ==
    /\ Called
    /\ ~HasRelatedSymbols(event)
    /\ HasSentimentScore(event)
    /\ event["metadata"]["sentiment_score"] \in MalformedScoreTexts
    /\ before # EmptyDict
    /\ result = "returned"

\* C2: after a call whose event lists distinct entities and carries a score
\* that parses to s, every listed entity has latest_news_sentiment = s and a
\* news_event_count one above its count before the call (0 if it had none).
C2_DistinctSymbolsSetScoreAndCountOnce ==
    (/\ Called
     /\ HasRelatedSymbols(event)
     /\ Distinct(SymbolsOf(event))
     /\ HasSentimentScore(event)
     /\ event["metadata"]["sentiment_score"] \notin MalformedScoreTexts
     /\ float(event["metadata"]["sentiment_score"]).exc = "none") =>
        /\ result = "returned"
        /\ \A k \in Range(SymbolsOf(event)) :
              /\ k \in DOMAIN FEATURE_STORE
              /\ FEATURE_STORE[k].latest_news_sentiment = ScoreOf(event)
              /\ FEATURE_STORE[k].news_event_count = CountIn(before, k) + 1

\* "A,B" was ingested with a parseable score when one of the two already had
\* a record with another sentiment and the other had none.
C2_Witness ==
    /\ result = "returned"
    /\ HasRelatedSymbols(event)
    /\ HasSentimentScore(event)
    /\ SymbolsOf(event) = <<<<"A">>, <<"B">>>>
    /\ \E k \in Range(SymbolsOf(event)) :
          /\ k \in DOMAIN before
          /\ before[k].latest_news_sentiment # ScoreOf(event)
          /\ FEATURE_STORE[k].news_event_count = before[k].news_event_count + 1
    /\ \E k \in Range(SymbolsOf(event)) :
          /\ k \notin DOMAIN before
          /\ FEATURE_STORE[k].news_event_count = 1

\* C3: last write wins: the latest_news_sentiment of every entity in the
\* store is the score of the latest ingested event that lists the entity,
\* whatever was ingested for other entities before, between or after.
C3_LastWriteWins ==
    \A k \in DOMAIN FEATURE_STORE :
        /\ Listing(k) # {}
        /\ LET last == CHOOSE i \in Listing(k) : \A j \in Listing(k) : j <= i
           IN  FEATURE_STORE[k].latest_news_sentiment = ScoreOf(log[last].event)

\* Three ingests with three different scores: the first and the third list
\* an entity the second does not, the second lists an entity the third does
\* not.
C3_Witness ==
    /\ Len(log) = 3
    /\ ScoreOf(log[1].event) # ScoreOf(log[2].event)
    /\ ScoreOf(log[2].event) # ScoreOf(log[3].event)
    /\ ScoreOf(log[1].event) # ScoreOf(log[3].event)
    /\ \E a, b \in DOMAIN FEATURE_STORE :
          /\ Listing(a) = {1, 3}
          /\ Listing(b) = {2}
          /\ FEATURE_STORE[a].latest_news_sentiment = ScoreOf(log[3].event)
          /\ FEATURE_STORE[b].latest_news_sentiment = ScoreOf(log[2].event)

\* C4: a call whose event has related_symbols and a sentiment_score that is
\* not a decimal number ends in a ValueError: it neither returns normally
\* nor goes on with the default 0.0.
C4_MalformedScoreRaises ==
    (/\ Called
     /\ HasRelatedSymbols(event)
     /\ HasSentimentScore(event)
     /\ \/ event["metadata"]["sentiment_score"] \in MalformedScoreTexts
        \/ float(event["metadata"]["sentiment_score"]).exc # "none") =>
        /\ result = "ValueError"
        /\ \A k \in Range(SymbolsOf(event)) :
              CountIn(FEATURE_STORE, k) = CountIn(before, k)

\* The score "x" for an entity that has a record with a sentiment other
\* than 0.0 raised.
C4_Witness ==
    /\ result = "ValueError"
    /\ HasRelatedSymbols(event)
    /\ HasSentimentScore(event)
    /\ event["metadata"]["sentiment_score"] = <<"x">>
    /\ \E k \in Range(SymbolsOf(event)) :
          /\ k \in DOMAIN before
          /\ before[k].latest_news_sentiment # ZeroFloat

\* C5: the keys of FEATURE_STORE are exactly the entities the ingested
\* events listed, and a call fails only over a malformed score, never over
\* an identifier the store has not seen.
C5_StoreIsEntitiesSeen ==
    /\ DOMAIN FEATURE_STORE = SeenEntities
    /\ (Called /\ result # "returned") =>
          /\ HasSentimentScore(event)
          /\ event["metadata"]["sentiment_score"] \in MalformedScoreTexts

\* An event listing an identifier without record and one with a record was
\* ingested: the store gained exactly the unknown one.
C5_Witness ==
    /\ result = "returned"
    /\ Len(log) >= 2
    /\ \E k \in Range(SymbolsOf(event)) : k \in DOMAIN before
    /\ \E k \in Range(SymbolsOf(event)) :
          /\ k \notin DOMAIN before
          /\ DOMAIN FEATURE_STORE = DOMAIN before \cup {k}
          /\ DOMAIN FEATURE_STORE = SeenEntities

\* The claim C6 as it was stated: the count of an entity is the number of
\* ingested events that reference it.
C6_CountIsNumberOfEvents ==
    \A k \in DOMAIN FEATURE_STORE \cup SeenEntities :
        CountIn(FEATURE_STORE, k) = Cardinality(Listing(k))

\* How often the first n events of the log list k, repetitions counted.
RECURSIVE OccurrencesInLog(_, _)
OccurrencesInLog(n, k) ==
    IF n = 0 THEN 0
    ELSE OccurrencesInLog(n - 1, k) + Occurrences(SymbolsOf(log[n].event), k)

\* C6: news_event_count never decreases, every ingest raises it by the
\* number of times the event lists the entity, and the count of an entity is
\* the number of its occurrences in the related_symbols of the ingested
\* events (the number of events where no event lists it twice).
C6_CountIsNumberOfOccurrences ==
    /\ \A k \in DOMAIN FEATURE_STORE \cup SeenEntities :
          /\ CountIn(FEATURE_STORE, k) = OccurrencesInLog(Len(log), k)
          /\ (\A i \in Listing(k) : Distinct(SymbolsOf(log[i].event))) =>
                CountIn(FEATURE_STORE, k) = Cardinality(Listing(k))
    /\ \A k \in DOMAIN before : CountIn(FEATURE_STORE, k) >= CountIn(before, k)
    /\ \A i \in DOMAIN log : \A k \in DOMAIN log[i].before \cup DOMAIN log[i].after :
          CountIn(log[i].after, k) =
             CountIn(log[i].before, k) + Occurrences(SymbolsOf(log[i].event), k)

\* Three ingests, one of which lists an entity twice: its count is above
\* the number of events that list it.
C6_Witness ==
    /\ Len(log) = 3
    /\ \E k \in DOMAIN FEATURE_STORE :
          /\ Cardinality(Listing(k)) >= 2
          /\ FEATURE_STORE[k].news_event_count > Cardinality(Listing(k))
          /\ FEATURE_STORE[k].news_event_count = OccurrencesInLog(3, k)
    /\ \E k \in DOMAIN FEATURE_STORE :
          FEATURE_STORE[k].news_event_count = Cardinality(Listing(k))

\* C7: one ingest raises the news_event_count of an entity by the number of
\* times the event's related_symbols lists it: "A,A" raises A's count by 2.
C7_CountRaisedPerOccurrence ==
    (Called /\ result = "returned" /\ HasRelatedSymbols(event)) =>
        \A k \in Range(SymbolsOf(event)) :
            CountIn(FEATURE_STORE, k) =
               CountIn(before, k) + Occurrences(SymbolsOf(event), k)

\* "A,A" was ingested into a store that had a record of A: the count went
\* up by 2.
C7_Witness ==
    /\ result = "returned"
    /\ HasRelatedSymbols(event)
    /\ SymbolsOf(event) = <<<<"A">>, <<"A">>>>
    /\ <<"A">> \in DOMAIN before
    /\ before[<<"A">>].news_event_count >= 1
    /\ FEATURE_STORE[<<"A">>].news_event_count = before[<<"A">>].news_event_count + 2

\* C8: ingesting the same event twice in a row counts it twice for every
\* entity it lists; the store after the second ingest is not the store
\* after the first.
C8_SameEventCountsTwice ==
    \A i \in DOMAIN log : i > 1 =>
        /\ log[i].before = log[i - 1].after
        /\ log[i].event = log[i - 1].event =>
              /\ log[i].after # log[i - 1].after
              /\ \A k \in Range(SymbolsOf(log[i].event)) :
                    /\ CountIn(log[i].after, k) =
                          CountIn(log[i - 1].before, k)
                             + 2 * Occurrences(SymbolsOf(log[i].event), k)
                    /\ CountIn(log[i].after, k) > CountIn(log[i - 1].after, k)

\* The same event, event_id included, was ingested twice in a row into a
\* store that knew its entities, and their counts went up by 2.
C8_Witness ==
    /\ Len(log) = 3
    /\ log[3].event = log[2].event
    /\ "event_id" \in DOMAIN log[3].event
    /\ FEATURE_STORE = log[3].after
    /\ \A k \in Range(SymbolsOf(log[3].event)) :
          /\ k \in DOMAIN log[2].before
          /\ FEATURE_STORE[k].news_event_count = log[2].before[k].news_event_count + 2

\* C9: one ingest into the empty store of an event that lists distinct
\* entities leaves exactly these entities, each with the event's score and
\* news_event_count 1; the simulated event leaves INVT, CHIP and SEMI with
\* 0.75 and 1.
C9_FirstIngestFromEmptyStore ==
    /\ (/\ result = "returned"
        /\ before = EmptyDict
        /\ HasRelatedSymbols(event)
        /\ Distinct(SymbolsOf(event))) =>
          /\ DOMAIN FEATURE_STORE = Range(SymbolsOf(event))
          /\ \A k \in DOMAIN FEATURE_STORE :
                FEATURE_STORE[k] = [latest_news_sentiment |-> ScoreOf(event),
                                    news_event_count |-> 1]
    /\ (Called /\ before = EmptyDict /\ event = SimulatedEvent) =>
          /\ result = "returned"
          /\ DOMAIN FEATURE_STORE =
                {<<"I", "N", "V", "T">>, <<"C", "H", "I", "P">>, <<"S", "E", "M", "I">>}
          /\ \A k \in DOMAIN FEATURE_STORE :
                FEATURE_STORE[k] = [latest_news_sentiment |-> <<75, 2>>,
                                    news_event_count |-> 1]

\* The loop's first turn: the simulated event met the empty store.
C9_Witness ==
    /\ result = "returned"
    /\ before = EmptyDict
    /\ log = <<[event |-> SimulatedEvent,
                before |-> EmptyDict,
                after |-> FEATURE_STORE]>>
    /\ event = SimulatedEvent
    /\ event["event_id"] = "a1b2c3d4-e5f6-7890-1234-567890abcdef"
    /\ Cardinality(DOMAIN FEATURE_STORE) = 3

\* C10: a call whose event has related_symbols and no sentiment_score
\* returns normally, sets the latest_news_sentiment of every listed entity
\* to 0.0 and counts the event for it as any other.
C10_AbsentScoreDefaultsToZero ==
    (Called /\ HasRelatedSymbols(event) /\ ~HasSentimentScore(event)) =>
        /\ result = "returned"
        /\ \A k \in Range(SymbolsOf(event)) :
              /\ k \in DOMAIN FEATURE_STORE
              /\ FEATURE_STORE[k].latest_news_sentiment = ZeroFloat
              /\ FEATURE_STORE[k].news_event_count =
                    CountIn(before, k) + Occurrences(SymbolsOf(event), k)

\* An event without score overwrote a sentiment other than 0.0.
C10_Witness ==
    /\ result = "returned"
    /\ HasRelatedSymbols(event)
    /\ ~HasSentimentScore(event)
    /\ \E k \in Range(SymbolsOf(event)) :
          /\ k \in DOMAIN before
          /\ before[k].latest_news_sentiment # ZeroFloat
          /\ FEATURE_STORE[k].latest_news_sentiment = ZeroFloat
          /\ FEATURE_STORE[k].news_event_count > before[k].news_event_count

\* C14: the pieces of related_symbols between the commas are the store keys
\* as they are: an empty related_symbols is present, not absent, and updates
\* the record keyed by the empty string; "A,,B" updates "A", "" and "B".
C14_TokensAreKeysAsIs ==
    (Called /\ result = "returned" /\ HasRelatedSymbols(event)) =>
        /\ event["metadata"]["related_symbols"] = <<>> =>
              /\ <<>> \in DOMAIN FEATURE_STORE
              /\ DOMAIN FEATURE_STORE = DOMAIN before \cup {<<>>}
              /\ FEATURE_STORE[<<>>].news_event_count = CountIn(before, <<>>) + 1
        /\ event["metadata"]["related_symbols"] = <<"A", ",", ",", "B">> =>
              /\ DOMAIN FEATURE_STORE = DOMAIN before \cup {<<"A">>, <<>>, <<"B">>}
              /\ \A k \in {<<"A">>, <<>>, <<"B">>} :
                    /\ FEATURE_STORE[k].news_event_count = CountIn(before, k) + 1
                    /\ FEATURE_STORE[k].latest_news_sentiment = ScoreOf(event)
        /\ \A k \in DOMAIN FEATURE_STORE \ DOMAIN before :
              \E i, j \in 0..(Len(event["metadata"]["related_symbols"]) + 1) :
                 /\ i < j
                 /\ k = SubSeq(event["metadata"]["related_symbols"], i + 1, j - 1)
                 /\ i = 0 \/ event["metadata"]["related_symbols"][i] = ","
                 /\ \/ j = Len(event["metadata"]["related_symbols"]) + 1
                    \/ event["metadata"]["related_symbols"][j] = ","

\* "A,,B" was ingested after "": the record of the empty string, created by
\* the first, was updated by the second along with those of A and B.
C14_Witness ==
    /\ result = "returned"
    /\ Len(log) = 2
    /\ log[1].event["metadata"]["related_symbols"] = <<>>
    /\ log[1].after = before
    /\ HasRelatedSymbols(event)
    /\ event["metadata"]["related_symbols"] = <<"A", ",", ",", "B">>
    /\ DOMAIN before = {<<>>}
    /\ DOMAIN FEATURE_STORE = {<<"A">>, <<>>, <<"B">>}
    /\ FEATURE_STORE[<<>>].news_event_count = 2

\* C15: a call that ends in a ValueError over a malformed sentiment_score
\* leaves FEATURE_STORE as it found it: no record created, no count raised,
\* no sentiment overwritten.
C15_FailedIngestChangesNothing ==
    (Called /\ result # "returned") =>
        /\ FEATURE_STORE = before
        /\ \A k \in Range(SymbolsOf(event)) :
              /\ k \in DOMAIN FEATURE_STORE <=> k \in DOMAIN before
              /\ k \in DOMAIN before =>
                    /\ FEATURE_STORE[k].news_event_count = before[k].news_event_count
                    /\ FEATURE_STORE[k].latest_news_sentiment =
                          before[k].latest_news_sentiment

\* A malformed score came with an entity the store had, with a sentiment
\* other than 0.0, and an entity it had not.
C15_Witness ==
    /\ result = "ValueError"
    /\ HasRelatedSymbols(event)
    /\ event["metadata"]["sentiment_score"] \in MalformedScoreTexts
    /\ \E k \in Range(SymbolsOf(event)) :
          /\ k \in DOMAIN before
          /\ before[k].latest_news_sentiment # ZeroFloat
    /\ \E k \in Range(SymbolsOf(event)) :
          /\ k \notin DOMAIN before
          /\ k \notin DOMAIN FEATURE_STORE

\* C16: a call changes the records of the entities its event lists and no
\* other: an entity not listed is in the store after the call iff it was
\* before, with the same sentiment and count; no call removes a key.
C16_UnlistedEntitiesUntouched ==
    /\ Called =>
          /\ DOMAIN before \subseteq DOMAIN FEATURE_STORE
          /\ \A k \in (DOMAIN before \cup DOMAIN FEATURE_STORE)
                         \ Range(SymbolsOf(event)) :
                /\ k \in DOMAIN before
                /\ k \in DOMAIN FEATURE_STORE
                /\ FEATURE_STORE[k].latest_news_sentiment =
                      before[k].latest_news_sentiment
                /\ FEATURE_STORE[k].news_event_count = before[k].news_event_count
    /\ \A i \in DOMAIN log :
          /\ DOMAIN log[i].before \subseteq DOMAIN log[i].after
          /\ \A k \in DOMAIN log[i].before \ Range(SymbolsOf(log[i].event)) :
                log[i].after[k] = log[i].before[k]
          /\ DOMAIN log[i].after \ DOMAIN log[i].before
                \subseteq Range(SymbolsOf(log[i].event))

\* An event was ingested that does not list an entity the store has with
\* another sentiment than the event's; the store gained a record beside it.
C16_Witness ==
    /\ result = "returned"
    /\ HasRelatedSymbols(event)
    /\ \E k \in DOMAIN before \ Range(SymbolsOf(event)) :
          /\ before[k].latest_news_sentiment # ScoreOf(event)
          /\ before[k].news_event_count >= 2
          /\ FEATURE_STORE[k] = before[k]
    /\ DOMAIN FEATURE_STORE # DOMAIN before

----------------------------------------------------------------------------
(* Properties of the loop of process_event_stream                          *)

\* The store after the loop has consumed the first n messages it received.
RECURSIVE Replay(_)
Replay(n) ==
    IF n = 0 THEN EmptyDict
    ELSE update_features_from_event(Replay(n - 1), json_loads(pulled[n])).store

C12_TurnOrderAndDisplay ==
    /\ [](/\ \A i \in DOMAIN shown :
                /\ shown[i].turn = i
                /\ shown[i].event = json_loads(pulled[i])
                /\ shown[i].store = Replay(i)
          /\ pc \in {"receive", "sleep"} => Len(shown) = Len(pulled)
          /\ pc \in {"consume", "display"} => Len(shown) = Len(pulled) - 1
          /\ pc = "display" =>
                /\ event = json_loads(pulled[Len(pulled)])
                /\ FEATURE_STORE = Replay(Len(pulled)))
    /\ [][/\ pc = "receive" => pc' = "consume" /\ Len(pulled') = Len(pulled) + 1
          /\ pc = "consume" => pc' \in {"display", "halted"} /\ event' = json_loads(event_json)
          /\ pc = "display" => pc' = "sleep" /\ Len(shown') = Len(shown) + 1
          /\ pc = "sleep" => pc' = "receive"]_vars

\* Two turns are complete: the second display shows the store after the
\* second ingest, which is not the store the first display showed.
C12_Witness ==
    /\ pc = "sleep"
    /\ Len(pulled) = 2
    /\ Len(shown) = 2
    /\ shown[1].store # EmptyDict
    /\ shown[2].store # shown[1].store
    /\ shown[2].store = FEATURE_STORE
    /\ shown[2].event = event

\* C13: the loop ends only over an exception: while every ingest succeeds it
\* is never halted, and every complete turn is followed by the receipt and
\* the ingest of another message.
C13_LoopRunsOn ==
    /\ [](pc = "halted" => uncaught # "none" /\ result # "returned")
    /\ [](uncaught = "none" => pc # "halted")
    /\ \A n \in 1..(MaxTurns - 1) :
          (pc = "sleep" /\ Len(pulled) = n)
             ~> (Len(pulled) = n + 1 /\ pc \in {"display", "halted"}
                 /\ event = json_loads(pulled[n + 1]))

\* After two complete turns a third message was received and ingested.
C13_Witness ==
    /\ pc = "display"
    /\ uncaught = "none"
    /\ Len(pulled) = 3
    /\ Len(shown) = 2
    /\ event = json_loads(pulled[3])
    /\ result = "returned"

====
